---- MODULE Spec2Model ----
(***************************************************************************)
(* Model of knots.py: the Knot base class and the Torus, Lissajous and     *)
(* Special coordinate generators.                                          *)
(*                                                                         *)
(* One curve object is constructed (Init) and then driven through          *)
(* generate_coordinates, plot, visualise and save_coordinates.             *)
(*                                                                         *)
(* Python strings are sequences of one-character strings, so that          *)
(* concatenation, str() of an integer and letter case are computed.        *)
(* numpy buffers live in a heap of arrays; the coordinates field holds an  *)
(* address (0 is None).  A cell of a buffer is a 5-tuple <<tag, a, b, c,   *)
(* d>>: either the closed-form term the generator stored there (the angle  *)
(* 2*pi*k/N is kept as its integer numerator k) or an uninitialised cell   *)
(* left by np.empty holding an arbitrary value.                            *)
(***************************************************************************)
EXTENDS Integers, Sequences, FiniteSets, TLC

VARIABLES self, heap, files, op, err, calls, args, p0, q0

vars == <<self, heap, files, op, err, calls, args, p0, q0>>

-----------------------------------------------------------------------------
(* Bounds of the model *)

MaxW == 1
MaxN == 2
MaxCalls == 2
MaxLen == 3
MaxId == 2
MaxGarbage == 1

-----------------------------------------------------------------------------
(* Python values *)

None == <<>>
Some(v) == <<v>>
NoneRef == 0

Digit == <<"0", "1", "2", "3", "4", "5", "6", "7", "8", "9">>

RECURSIVE StrNat(_)
StrNat(i) ==
    IF i < 10 THEN <<Digit[i + 1]>>
    ELSE StrNat(i \div 10) \o <<Digit[(i % 10) + 1]>>

Str(i) == IF i < 0 THEN <<"-">> \o StrNat(-i) ELSE StrNat(i)

-----------------------------------------------------------------------------
(* Constructor inputs *)

ChiralityVals ==
    { <<"l", "e", "f", "t">>, <<"L", "e", "f", "t">>, <<"L", "E", "F", "T">>,
      <<"l", "E", "f", "T">>, <<"L">>, <<"l">>,
      <<"r", "i", "g", "h", "t">>, <<"R", "I", "G", "H", "T">>,
      <<"f", "o", "o">>, <<>> }

WindingVals == (-MaxW)..MaxW
NVals == 0..MaxN
IdVals == 0..MaxId

LissajousLens == 2..MaxLen
FrequencyVals == { [i \in 1..k |-> f + i] : k \in LissajousLens, f \in 0..MaxW }
PhaseVals == { [i \in 1..k |-> g] : k \in LissajousLens, g \in 0..1 }

RadiusVals == { <<None, None>>, <<Some(3), Some(2)>> }
TitleVals == { None, Some(<<"k">>) }
SuffixVals == { <<"d", "a", "t">> }

-----------------------------------------------------------------------------
(* Constructors *)

Knot(crossings, name, coordinates) ==
    [crossings |-> crossings, name |-> name, coordinates |-> coordinates]

TorusName(p, q, N, chirality) ==
    <<"(">> \o Str(p) \o <<"-">> \o Str(q)
        \o <<")", "-", "T", "o", "r", "u", "s", "-">> \o chirality
        \o <<"h", "a", "n", "d", "e", "d", ".">> \o Str(N)

Torus(p, q, N, chirality) ==
    [kind |-> "Torus", p |-> p, q |-> q, N |-> N, chirality |-> chirality]
        @@ Knot(None, Some(TorusName(p, q, N, chirality)), NoneRef)

LissajousName(N) ==
    <<"L", "i", "s", "s", "a", "j", "o", "u", "s", ".">> \o Str(N)

Lissajous(n, phi, N) ==
    [kind |-> "Lissajous", n |-> n, phi |-> phi, N |-> N]
        @@ Knot(None, Some(LissajousName(N)), NoneRef)

SpecialName(id, N) ==
    IF id = 0
    THEN <<"F", "i", "g", "u", "r", "e", "-", "e", "i", "g", "h", "t", ".">> \o Str(N)
    ELSE <<"G", "r", "a", "n", "n", "y", ".">> \o Str(N)

Special(id, N) ==
    [kind |-> "Special", id |-> id, N |-> N]
        @@ Knot(None, Some(SpecialName(id, N)), NoneRef)

-----------------------------------------------------------------------------
(* numpy buffers *)

Uninit(g) == <<"uninit", g, 0, 0, 0>>

NpEmptyExtraRow(rows, cols) ==
    { [i \in 1..(rows + 1) |-> [j \in 1..cols |-> Uninit(g)]] : g \in 0..MaxGarbage }

NpEmpty(rows, cols) ==
    { [i \in 1..rows |-> [j \in 1..cols |-> Uninit(g)]] : g \in 0..MaxGarbage }

BindInPlace(m, fresh) ==
    IF m.self.coordinates # NoneRef
    THEN m
    ELSE [m EXCEPT !.self.coordinates = Len(m.heap) + 1,
                   !.heap = Append(m.heap, fresh)]

Bind(m, fresh) ==
    [m EXCEPT !.self.coordinates = Len(m.heap) + 1,
              !.heap = Append(m.heap, fresh)]

Store(m, bead, dimension, cell) ==
    [m EXCEPT !.heap[m.self.coordinates][bead + 1][dimension + 1] = cell]

DefaultInner == 2
DefaultOuter == 1
DefaultAmplitude == 2

OrDefault(arg, default) == IF arg = None THEN default ELSE arg[1]

-----------------------------------------------------------------------------
(* Torus.generate_coordinates *)

TorusX(r_outer, r_inner, qk, pk) == <<"torus_x", r_outer, r_inner, qk, pk>>
TorusY(r_outer, r_inner, qk, pk) == <<"torus_y", r_outer, r_inner, qk, pk>>
TorusZ(r_outer, qk) == <<"torus_z", r_outer, 0, qk, 0>>

IsLeftHandedUnlessRight(chirality) ==
    chirality # <<"r", "i", "g", "h", "t">>

IsLeftHanded(chirality) ==
    \/ chirality = <<"l", "e", "f", "t">>
    \/ chirality = <<"L", "e", "f", "t">>
    \/ chirality = <<"L">>
    \/ chirality = <<"l">>

NegateOnlyP(obj) == [obj EXCEPT !.p = obj.p * (-1)]

Negate(obj) == [obj EXCEPT !.p = obj.p * (-1), !.q = obj.q * (-1)]

TorusBeadNegating(m, bead, r_inner, r_outer) ==
    LET sp == IF IsLeftHanded(m.self.chirality) THEN -m.self.p ELSE m.self.p
        sq == IF IsLeftHanded(m.self.chirality) THEN -m.self.q ELSE m.self.q
        m0 == Store(m, bead, 0, TorusX(r_outer, r_inner, sq * bead, sp * bead))
        m1 == Store(m0, bead, 1, TorusY(r_outer, r_inner, sq * bead, sp * bead))
    IN  Store(m1, bead, 2, TorusZ(r_outer, sq * bead))

TorusBead(m, bead, r_inner, r_outer) ==
    LET qk == m.self.q * bead
        pk == m.self.p * bead
        m0 == Store(m, bead, 0, TorusX(r_outer, r_inner, qk, pk))
        m1 == Store(m0, bead, 1, TorusY(r_outer, r_inner, qk, pk))
    IN  Store(m1, bead, 2, TorusZ(r_outer, qk))

RECURSIVE TorusLoop(_, _, _, _)
TorusLoop(m, bead, r_inner, r_outer) ==
    IF bead >= m.self.N THEN m
    ELSE TorusLoop(TorusBead(m, bead, r_inner, r_outer), bead + 1, r_inner, r_outer)

TorusGenerateRenaming(m, fresh, r_inner, r_outer) ==
    LET m1 == Bind(m, fresh)
        ri == OrDefault(r_inner, DefaultInner)
        ro == OrDefault(r_outer, DefaultOuter)
        m2 == IF IsLeftHanded(m1.self.chirality)
              THEN [m1 EXCEPT !.self = Negate(m1.self)]
              ELSE m1
        m3 == [m2 EXCEPT !.self.name =
                   Some(TorusName(m2.self.p, m2.self.q, m2.self.N, m2.self.chirality))]
    IN  TorusLoop(m3, 0, ri, ro)

TorusGenerate(m, fresh, r_inner, r_outer) ==
    LET m1 == Bind(m, fresh)
        ri == OrDefault(r_inner, DefaultInner)
        ro == OrDefault(r_outer, DefaultOuter)
        m2 == IF IsLeftHanded(m1.self.chirality)
              THEN [m1 EXCEPT !.self = Negate(m1.self)]
              ELSE m1
    IN  TorusLoop(m2, 0, ri, ro)

-----------------------------------------------------------------------------
(* Lissajous.generate_coordinates *)

LissajousCell(r_outer, nk, phase) == <<"lissajous", r_outer, nk, phase, 0>>

RECURSIVE LissajousRow(_, _, _, _)
LissajousRow(m, bead, dimension, r_outer) ==
    IF dimension >= 3 THEN m
    ELSE IF dimension + 1 > Len(m.self.n) \/ dimension + 1 > Len(m.self.phi)
    THEN [m EXCEPT !.exc = "IndexError"]
    ELSE LissajousRow(
             Store(m, bead, dimension,
                   LissajousCell(r_outer, m.self.n[dimension + 1] * bead,
                                 m.self.phi[dimension + 1])),
             bead, dimension + 1, r_outer)

RECURSIVE LissajousLoop(_, _, _)
LissajousLoop(m, bead, r_outer) ==
    IF bead >= m.self.N \/ m.exc # "none" THEN m
    ELSE LissajousLoop(LissajousRow(m, bead, 0, r_outer), bead + 1, r_outer)

LissajousGenerate(m, fresh, r_outer) ==
    LissajousLoop(Bind(m, fresh), 0, OrDefault(r_outer, DefaultAmplitude))

-----------------------------------------------------------------------------
(* Special.generate_coordinates *)

GrannyCell(axis, bead) == <<axis, bead, 0, 0, 0>>

FigureEightBead(m, bead, r_inner, r_outer) ==
    LET m0 == Store(m, bead, 0, TorusX(r_outer, r_inner, 2 * bead, 3 * bead))
        m1 == Store(m0, bead, 1, TorusY(r_outer, r_inner, 2 * bead, 3 * bead))
    IN  Store(m1, bead, 2, TorusZ(r_outer, 4 * bead))

GrannyBead(m, bead) ==
    LET m0 == Store(m, bead, 0, GrannyCell("granny_x", bead))
        m1 == Store(m0, bead, 1, GrannyCell("granny_y", bead))
    IN  Store(m1, bead, 2, GrannyCell("granny_z", bead))

RECURSIVE FigureEightLoop(_, _, _, _)
FigureEightLoop(m, bead, r_inner, r_outer) ==
    IF bead >= m.self.N THEN m
    ELSE FigureEightLoop(FigureEightBead(m, bead, r_inner, r_outer),
                         bead + 1, r_inner, r_outer)

RECURSIVE GrannyLoop(_, _)
GrannyLoop(m, bead) ==
    IF bead >= m.self.N THEN m
    ELSE GrannyLoop(GrannyBead(m, bead), bead + 1)

SpecialBranchesElseGranny(m, r_inner, r_outer) ==
    IF m.self.id = 0
    THEN FigureEightLoop(m, 0, OrDefault(r_inner, DefaultInner),
                         OrDefault(r_outer, DefaultOuter))
    ELSE GrannyLoop(m, 0)

SpecialBranches(m, r_inner, r_outer) ==
    IF m.self.id = 0
    THEN FigureEightLoop(m, 0, OrDefault(r_inner, DefaultInner),
                         OrDefault(r_outer, DefaultOuter))
    ELSE IF m.self.id = 1
    THEN GrannyLoop(m, 0)
    ELSE m

SpecialGenerate(m, fresh, r_inner, r_outer) ==
    SpecialBranches(Bind(m, fresh), r_inner, r_outer)

-----------------------------------------------------------------------------
(* State after construction *)

InitTorus ==
    \E p \in WindingVals, q \in WindingVals, N \in NVals, chirality \in ChiralityVals :
        /\ self = Torus(p, q, N, chirality)
        /\ p0 = p
        /\ q0 = q

InitLissajous ==
    \E n \in FrequencyVals, phi \in PhaseVals, N \in NVals :
        /\ self = Lissajous(n, phi, N)
        /\ p0 = 0
        /\ q0 = 0

InitSpecial ==
    \E id \in IdVals, N \in NVals :
        /\ self = Special(id, N)
        /\ p0 = 0
        /\ q0 = 0

Init ==
    /\ InitTorus \/ InitLissajous \/ InitSpecial
    /\ heap = <<>>
    /\ files = {}
    /\ op = "__init__"
    /\ err = "none"
    /\ calls = 0
    /\ args = <<None, None>>

-----------------------------------------------------------------------------
(* Operations *)

Machine == [self |-> self, heap |-> heap, exc |-> "none"]

Finish(m, name, a) ==
    /\ self' = m.self
    /\ heap' = m.heap
    /\ err' = m.exc
    /\ op' = name
    /\ args' = a
    /\ calls' = calls + 1
    /\ UNCHANGED <<files, p0, q0>>

TorusGenerateCoordinates ==
    /\ self.kind = "Torus"
    /\ calls < MaxCalls
    /\ \E fresh \in NpEmpty(self.N, 3), a \in RadiusVals :
           Finish(TorusGenerate(Machine, fresh, a[1], a[2]), "generate_coordinates", a)

LissajousGenerateCoordinates ==
    /\ self.kind = "Lissajous"
    /\ calls < MaxCalls
    /\ \E fresh \in NpEmpty(self.N, 3), a \in RadiusVals :
           Finish(LissajousGenerate(Machine, fresh, a[2]), "generate_coordinates",
                  <<None, a[2]>>)

SpecialGenerateCoordinates ==
    /\ self.kind = "Special"
    /\ calls < MaxCalls
    /\ \E fresh \in NpEmpty(self.N, 3), a \in RadiusVals :
           Finish(SpecialGenerate(Machine, fresh, a[1], a[2]), "generate_coordinates", a)

PngSuffix == <<"_", "k", "n", "o", "t", ".", "p", "n", "g">>

Plot ==
    \E save_image \in BOOLEAN :
        /\ op' = "plot"
        /\ IF self.coordinates = NoneRef
           THEN /\ err' = "TypeError"
                /\ files' = files
           ELSE /\ err' = "none"
                /\ files' = IF save_image
                            THEN files \union {self.name[1] \o PngSuffix}
                            ELSE files
        /\ UNCHANGED <<self, heap, calls, args, p0, q0>>

Visualise ==
    /\ op' = "visualise"
    /\ err' = IF self.coordinates = NoneRef THEN "TypeError" ELSE "none"
    /\ UNCHANGED <<self, heap, files, calls, args, p0, q0>>

DefaultTitle == <<"K", "n", "o", "t">>

SaveCoordinates ==
    \E title \in TitleVals, suffix \in SuffixVals :
        LET t == IF title = None
                 THEN IF self.name # None THEN self.name[1] ELSE DefaultTitle
                 ELSE title[1]
        IN  /\ op' = "save_coordinates"
            /\ files' = files \union {t \o <<".">> \o suffix}
            /\ err' = IF self.coordinates = NoneRef THEN "ValueError" ELSE "none"
            /\ UNCHANGED <<self, heap, calls, args, p0, q0>>

Next ==
    \/ TorusGenerateCoordinates
    \/ LissajousGenerateCoordinates
    \/ SpecialGenerateCoordinates
    \/ Plot
    \/ Visualise
    \/ SaveCoordinates

Spec == Init /\ [][Next]_vars

-----------------------------------------------------------------------------
(* Vocabulary of the properties *)

LowerLetters == <<"a", "b", "c", "d", "e", "f", "g", "h", "i", "j", "k", "l", "m",
                  "n", "o", "p", "q", "r", "s", "t", "u", "v", "w", "x", "y", "z">>
UpperLetters == <<"A", "B", "C", "D", "E", "F", "G", "H", "I", "J", "K", "L", "M",
                  "N", "O", "P", "Q", "R", "S", "T", "U", "V", "W", "X", "Y", "Z">>

ToLowerChar(c) ==
    IF \E i \in 1..Len(UpperLetters) : UpperLetters[i] = c
    THEN LowerLetters[CHOOSE i \in 1..Len(UpperLetters) : UpperLetters[i] = c]
    ELSE c

ToLower(s) == [i \in 1..Len(s) |-> ToLowerChar(s[i])]

Left == <<"l", "e", "f", "t">>
Right == <<"r", "i", "g", "h", "t">>

IsTorus == self.kind = "Torus"
Generated == self.coordinates # NoneRef
Buffer == heap[self.coordinates]
Written(cell) == cell[1] # "uninit"
Sign(k) == IF k % 2 = 0 THEN 1 ELSE -1

\* The right-handed (p, q) torus curve of section 4.2, sampled at N beads.
TorusCurve(p, q, N, r_inner, r_outer) ==
    [i \in 1..N |-> << TorusX(r_outer, r_inner, q * (i - 1), p * (i - 1)),
                       TorusY(r_outer, r_inner, q * (i - 1), p * (i - 1)),
                       TorusZ(r_outer, q * (i - 1)) >>]

LastInner == OrDefault(args[1], DefaultInner)
LastOuter == OrDefault(args[2], DefaultOuter)

\* The buffer a first generate_coordinates call with the last call's radii
\* builds on a newly constructed right-handed Torus(p, q, N).
FirstRightHanded(p, q, N) ==
    LET m == [self |-> Torus(p, q, N, Right), heap |-> <<>>, exc |-> "none"]
        r == TorusGenerate(m, CHOOSE b \in NpEmpty(N, 3) : TRUE, args[1], args[2])
    IN  r.heap[r.self.coordinates]

\* Neither a spelling of "left" or "right" nor the abbreviation "l", up to case.
Malformed(chirality) ==
    /\ ToLower(chirality) # Left
    /\ ToLower(chirality) # Right
    /\ ToLower(chirality) # <<"l">>

-----------------------------------------------------------------------------
(* Properties *)

\* C1: on a Torus whose chirality the generator takes as left-handed, every
\* generate_coordinates call negates the stored p and q: after k calls they are
\* ((-1)^k * p0, (-1)^k * q0), and the buffer of the k-th call is the curve of
\* those winding numbers, so the second call draws the opposite handedness.
C1_NegatedEveryCall ==
    (IsTorus /\ IsLeftHanded(self.chirality)) =>
        /\ self.p = Sign(calls) * p0
        /\ self.q = Sign(calls) * q0
        /\ Generated =>
               Buffer = TorusCurve(Sign(calls) * p0, Sign(calls) * q0, self.N,
                                   LastInner, LastOuter)

C1_Witness ==
    /\ IsTorus /\ IsLeftHanded(self.chirality)
    /\ calls = 2 /\ p0 # 0 /\ q0 # 0 /\ self.N >= 2
    /\ self.p = p0 /\ self.q = q0
    /\ heap[1][2] # heap[2][2]

\* C2: the first generate_coordinates call on a left-handed Torus(p0, q0, N)
\* builds, bead for bead, the buffer that the first call on a right-handed
\* Torus(-p0, -q0, N) builds.
C2_LeftEqualsMirroredRight ==
    (IsTorus /\ IsLeftHanded(self.chirality) /\ calls = 1) =>
        Buffer = FirstRightHanded(-p0, -q0, self.N)

C2_Witness ==
    /\ IsTorus /\ IsLeftHanded(self.chirality) /\ calls = 1
    /\ p0 # 0 /\ q0 # 0 /\ self.N >= 2
    /\ Buffer = TorusCurve(-p0, -q0, self.N, LastInner, LastOuter)
    /\ Buffer # TorusCurve(p0, q0, self.N, LastInner, LastOuter)

\* C3: chirality is case-insensitive: every spelling of "left" up to letter
\* case makes each generate_coordinates call negate p and q, and every
\* spelling of "right" up to letter case leaves them as constructed.
C3_CaseInsensitive ==
    IsTorus =>
        /\ ToLower(self.chirality) = Left =>
               (self.p = Sign(calls) * p0 /\ self.q = Sign(calls) * q0)
        /\ ToLower(self.chirality) = Right =>
               (self.p = p0 /\ self.q = q0)

\* C4: with a malformed chirality string generate_coordinates raises nothing,
\* leaves the stored p and q as constructed after any number of calls, and
\* builds the right-handed curve of (p, q).
C4_MalformedIsRightHanded ==
    (IsTorus /\ Malformed(self.chirality)) =>
        /\ self.p = p0
        /\ self.q = q0
        /\ op = "generate_coordinates" => err = "none"
        /\ calls >= 1 =>
               (Generated /\ Buffer = TorusCurve(p0, q0, self.N, LastInner, LastOuter))

C4_Witness ==
    /\ IsTorus /\ Malformed(self.chirality)
    /\ calls = 2 /\ op = "generate_coordinates" /\ err = "none"
    /\ p0 # 0 /\ q0 # 0 /\ self.N >= 2
    /\ self.p = p0

\* C5: the coordinates field is either None or an N x 3 buffer every cell of
\* which the generation formula has written.
C5_NoPartialBuffer ==
    Generated =>
        /\ Len(Buffer) = self.N
        /\ \A i \in 1..Len(Buffer) :
               /\ Len(Buffer[i]) = 3
               /\ \A j \in 1..3 : Written(Buffer[i][j])

\* C6: the name is the one the constructor built, whatever operations have
\* run since, also on a left-handed Torus whose stored p and q were negated.
C6_NameFixed ==
    self.name =
        Some(CASE self.kind = "Torus" -> TorusName(p0, q0, self.N, self.chirality)
               [] self.kind = "Lissajous" -> LissajousName(self.N)
               [] self.kind = "Special" -> SpecialName(self.id, self.N))

C6_Witness ==
    /\ IsTorus /\ IsLeftHanded(self.chirality)
    /\ calls = 1 /\ p0 # 0 /\ self.p = -p0
    /\ op = "save_coordinates" /\ Cardinality(files) >= 2
    /\ self.name = Some(TorusName(p0, q0, self.N, self.chirality))

\* C7: no operation changes N, and after every generate_coordinates call that
\* returns normally the buffer has exactly N rows of 3 columns.
C7_RowsEqualN ==
    [][ /\ self'.N = self.N
        /\ (op' = "generate_coordinates" /\ err' = "none") =>
               /\ Len(heap'[self'.coordinates]) = self'.N
               /\ \A i \in 1..self'.N : Len(heap'[self'.coordinates][i]) = 3 ]_vars

C7_Witness ==
    /\ calls = 2 /\ op = "generate_coordinates" /\ err = "none"
    /\ self.kind = "Lissajous"
    /\ self.N = 2 /\ Len(Buffer) = 2 /\ Len(Buffer[2]) = 3

\* C8: no Lissajous object has n or phi of a length other than 3, and
\* generate_coordinates never indexes n or phi out of bounds.
C8_LissajousLengthChecked ==
    self.kind = "Lissajous" =>
        /\ Len(self.n) = 3
        /\ Len(self.phi) = 3
        /\ err # "IndexError"

\* C9: on a Special curve whose id is neither 0 nor 1, generate_coordinates
\* raises nothing, stores an N x 3 buffer and writes none of its cells.
C9_UnsupportedIdUnwritten ==
    (self.kind = "Special" /\ self.id \notin {0, 1}) =>
        /\ op = "generate_coordinates" => err = "none"
        /\ calls >= 1 =>
               /\ Generated
               /\ Len(Buffer) = self.N
               /\ \A i \in 1..self.N :
                      /\ Len(Buffer[i]) = 3
                      /\ \A j \in 1..3 : ~Written(Buffer[i][j])

C9_Witness ==
    /\ self.kind = "Special" /\ self.id \notin {0, 1}
    /\ op = "generate_coordinates" /\ err = "none"
    /\ calls >= 1 /\ self.N >= 1
    /\ ~Written(Buffer[1][1])

\* C10: every generate_coordinates call binds coordinates to a newly
\* allocated buffer and no operation modifies a buffer that exists already.
C10_FreshBuffer ==
    [][ /\ calls' > calls =>
               /\ Len(heap') = Len(heap) + 1
               /\ self'.coordinates = Len(heap')
        /\ \A i \in 1..Len(heap) : heap'[i] = heap[i] ]_vars

C10_Witness ==
    /\ calls = 2 /\ Len(heap) = 2 /\ self.coordinates = 2
    /\ self.N >= 1
    /\ heap[1] # heap[2]

====
